---------------------------- MODULE Spec2Model ----------------------------
(***************************************************************************)
(* A model of the podcast RAG pipeline's generation router                 *)
(* (src/llm/prompt.py), its memoized model loaders (src/llm/prompt.py,     *)
(* src/ingest/embed.py, src/rerank/cross_encoder.py) and the answer        *)
(* pipeline (src/rag.py).                                                  *)
(*                                                                         *)
(* Conventions.  A temperature is kept in tenths (0.2 is 2).  A prompt is  *)
(* kept by its length in characters.  An error message is a sequence of    *)
(* words, and "ind in msg" is the search for a contiguous run of words.    *)
(* A model handle is [type, gen]: gen is the serial number of the          *)
(* construction that made it, so two constructions of one backend give     *)
(* two different handles.  A memo slot holds 0 for None, else the gen.     *)
(***************************************************************************)
EXTENDS Naturals, Sequences, FiniteSets, TLC

(* ----------------------------- bounds --------------------------------- *)

\* The largest number of hits the document store returns to one search.
MaxHits == 2

\* The number of request threads of the concurrent specification.
NThreads == 2

\* The largest number of blocks of a transcript, and of words of a block.
MaxBlocks == 4
MaxBlockWords == 4

\* The largest number of words of an episode title.
MaxTitleWords == 4

\* The largest number of chunks in the document store.
MaxDocs == 3

\* The largest number of hits given to rerank_results.
MaxRerankHits == 3

(* ------------------------ program constants --------------------------- *)

PHI3_MINI == "phi3_mini"
TINYLLAMA == "tinyllama"
LLAMA3_8B == "llama3_8b"

ModelType == {PHI3_MINI, TINYLLAMA, LLAMA3_8B}

MODEL_CONFIGS ==
  [t \in ModelType |->
     CASE t = PHI3_MINI ->
            [default_max_tokens |-> 500, default_temperature |-> 2,
             description |-> "Phi-3 Mini (Main LLM)"]
       [] t = TINYLLAMA ->
            [default_max_tokens |-> 250, default_temperature |-> 2,
             description |-> "TinyLlama (Fast Fallback)"]
       [] t = LLAMA3_8B ->
            [default_max_tokens |-> 1000, default_temperature |-> 2,
             description |-> "Llama-3.1-8B (Bigger Option)"]]

\* len(prompt) > 4000 sends a long prompt to the bigger model.
LONG_PROMPT_CHARS == 4000

\* min(256, max_tokens): the budget of the retry.
REDUCED_MAX_TOKENS == 256

\* The initial values of generate_answer's max_tokens and temperature.
INITIAL_MAX_TOKENS == 250
INITIAL_TEMPERATURE == 2

low_token_indicators ==
  << <<"exceed", "context", "window">>,
     <<"Requested", "tokens">>,
     <<"context", "window">> >>

\* src/rerank/cross_encoder.py, line 13.
DEFAULT_RERANK_MODEL == "cross-encoder/ms-marco-MiniLM-L-6-v2"

NO_HITS_ANSWER == "I couldn't find any relevant information in the podcast transcripts."

(* ------------------------- input domains ------------------------------ *)

\* os.getenv values: "" stands for an unset variable (None).
ModelStrings == {"phi3_mini", "tinyllama", "llama3_8b", "gpt4"}
Preferences == {"", "phi3", "tinyllama", "llama3_8b", "gpt4"}
PromptLens == {LONG_PROMPT_CHARS, LONG_PROMPT_CHARS + 1}
\* The (prompt length, use_bigger_for_long_context) pairs of a direct call:
\* a long prompt with and without the flag, and the longest prompt that is
\* not long with it.
CallShapes == {<<LONG_PROMPT_CHARS + 1, TRUE>>, <<LONG_PROMPT_CHARS + 1, FALSE>>,
               <<LONG_PROMPT_CHARS, TRUE>>}
MaxTokenOverrides == {0, 100}      \* 0: LLAMA_MAX_TOKENS unset
TemperatureOverrides == {0, 7}     \* 0: LLAMA_TEMPERATURE unset

\* The classes an exception is told apart by in the except clauses.
ErrClasses == {"RuntimeError", "ValueError", "Exception"}

\* Error messages of a completion call.
OverflowMsg == <<"Requested", "tokens", "exceed", "context", "window">>
PlainMsg == <<"llama_decode", "returned", "error">>
Messages == {OverflowMsg, PlainMsg}

\* What a completion call does: a response with choices, a response with
\* no choices, or an exception of some class with some message.
Outcomes ==
  {[kind |-> "text", cls |-> "none", msg |-> <<>>],
   [kind |-> "empty", cls |-> "none", msg |-> <<>>]}
  \cup [kind : {"raise"}, cls : {"RuntimeError", "Exception"}, msg : Messages]

NoModel == [type |-> "none", gen |-> 0]
NoResult == [kind |-> "none", name |-> "", note |-> "none", msg |-> <<>>]
NoErr == [cls |-> "none", msg |-> <<>>]

Min(a, b) == IF a <= b THEN a ELSE b


(* ----------------------------- state ---------------------------------- *)

VARIABLES
  \* configuration, read from the environment (constant after start)
  PRIMARY_MODEL, FALLBACK_MODEL, USE_BIGGER_MODEL,
  LLAMA_MAX_TOKENS, LLAMA_TEMPERATURE,
  \* the backends whose load succeeds now (library present, path set,
  \* file readable); it may change between two calls
  loadable,
  \* the memoized handles
  _loaded_models, _embedding_model, _rerank_model,
  \* history: the number of successful constructions of each model
  nConstructed,
  \* the running call: which entry point, where it stands, its arguments
  api, pc, prompt_len, model_preference, use_bigger_for_long_context,
  \* generate_answer's locals
  model, model_name, max_tokens, temperature, e, e2,
  \* what the call gave back: a result, or the class of the exception
  \* that left it
  result, raised,
  \* history of the running call: the completion calls made, the
  \* _load_model calls made
  calls, loads,
  \* ask_podcast_question's locals and history
  hits, contextBuilt, genInvocations,
  \* the request threads of the concurrent specification
  tpc, tkey, tmodel,
  \* the frames of the running chunk_by_semantic_windows,
  \* extract_guest_from_title, hybrid_search and rerank_results calls
  cw, gt, hs, rr,
  \* the frames of the running build_context,
  \* create_podcast_index_if_needed and ingest_podcast_episode calls
  bc, ci, ing,
  \* src/ingest/embed.py's EMBEDDING_DIMENSION (0 for None), the name that
  \* src/index/vector.py imported from it, the name from which the
  \* memoized reranking model was built, and the document store
  EMBEDDING_DIMENSION, vector_EMBEDDING_DIMENSION, _rerank_model_name,
  podcast_index

config == <<PRIMARY_MODEL, FALLBACK_MODEL, USE_BIGGER_MODEL,
            LLAMA_MAX_TOKENS, LLAMA_TEMPERATURE>>
memo == <<_loaded_models, _embedding_model, _rerank_model, nConstructed>>
args == <<prompt_len, model_preference, use_bigger_for_long_context>>
locals == <<model, model_name, max_tokens, temperature, e, e2>>
askvars == <<hits, contextBuilt, genInvocations>>
threads == <<tpc, tkey, tmodel>>
frames == <<cw, gt, hs, rr, bc, ci, ing>>
libstate == <<EMBEDDING_DIMENSION, vector_EMBEDDING_DIMENSION,
              _rerank_model_name, podcast_index>>
base == <<config, loadable, memo, api, pc, args, locals, result, raised,
          calls, loads, askvars, threads>>
vars == <<base, frames, libstate>>

\* No chunk_by_semantic_windows call is running.
NoChunking ==
  [pc |-> "idle", blocks |-> <<>>, max_tokens |-> 0, overlap |-> 0, i |-> 0,
   buffer |-> <<>>, token_count |-> 0, chunks |-> <<>>, seeds |-> <<>>,
   result |-> <<>>]

\* No extract_guest_from_title call is running.  An absent guest (None) is
\* the empty sequence of words: a captured group is never empty.
NoExtraction == [pc |-> "idle", title |-> <<>>, result |-> [title |-> <<>>, guest |-> <<>>]]

\* None, for an optional string and for an optional list.
NoneStr == [some |-> FALSE, v |-> ""]
NoneList == [some |-> FALSE, v |-> <<>>]
Some(x) == [some |-> TRUE, v |-> x]

\* No hybrid_search call is running.  nearest holds the places in the store
\* of the k nearest neighbours of the query embedding.
NoSearch ==
  [pc |-> "idle", user_query |-> "", size |-> 0, podcast_name |-> NoneStr,
   topics |-> NoneList, body |-> <<>>, store |-> <<>>, nearest |-> {},
   response |-> <<>>, result |-> <<>>, raised |-> "none"]

\* No rerank_results call is running.
NoRerank ==
  [pc |-> "idle", hits |-> <<>>, top_k |-> [some |-> FALSE, v |-> 0],
   model_name |-> NoneStr, model |-> 0, loaded_from |-> "", scores |-> <<>>,
   result |-> <<>>, raised |-> "none"]

\* No build_context call is running.
NoContext ==
  [pc |-> "idle", CONTEXT_CHUNK_MAX_CHARS |-> 0, chunk_text |-> <<>>,
   rendered |-> <<>>]

\* No create_podcast_index_if_needed call is running.  imported tells
\* whether src/index/vector.py has been imported; existed is the answer of
\* the store to indices.exists, created whether indices.create was called.
\* loaded_before tells whether the embedding model was loaded at the call.
NoCreate ==
  [pc |-> "idle", imported |-> FALSE, loaded_before |-> FALSE,
   existed |-> FALSE, raised |-> "none", created |-> FALSE]

\* episode_id: an id is the sequence of its pieces of text; the second id
\* holds the text that separates an id from a chunk number.
EpisodeIds == {<<"ep1">>, <<"ep1", "_chunk_", 0>>}

\* No ingest_podcast_episode call is running.  latest keeps, for each
\* episode id, the chunks of the transcript ingested last into the index
\* (none before the first ingest).
NoIngest ==
  [pc |-> "idle", episode_id |-> <<>>, chunks |-> <<>>, i |-> 0,
   raised |-> "none", latest |-> [id \in EpisodeIds |-> <<>>]]

\* The store before the index is made: no index, no chunk.  dimension is
\* that of the vector field (0 while there is no index); docs is the set
\* of the stored chunks.
NoIndex == [exists |-> FALSE, dimension |-> 0, docs |-> {}]

\* The vector sizes of the embedding models that EMBEDDING_MODEL may name.
EmbeddingDimensions == {384, 768, 1024}

Threads == 1..NThreads

\* The memoized models: each generation backend, the embedding model, the
\* reranking model.
EMBEDDING == "embedding"
RERANK == "rerank"
MemoKeys == ModelType \cup {EMBEDDING, RERANK}

(* ----------------------- src/llm/prompt.py ---------------------------- *)

\* The strings _get_model_type_from_string accepts.
Recognised(model_str) ==
  model_str \in {"phi3", "phi3_mini", "phi-3-mini", "tinyllama", "tiny-llama",
                 "llama3", "llama3_8b", "llama-3.1-8b", "llama-3-8b"}

\* _get_model_type_from_string on a recognised string (it raises ValueError
\* on any other).
_get_model_type_from_string(model_str) ==
  IF model_str \in {"phi3", "phi3_mini", "phi-3-mini"} THEN PHI3_MINI
  ELSE IF model_str \in {"tinyllama", "tiny-llama"} THEN TINYLLAMA
  ELSE LLAMA3_8B

\* The part of the state a load reads and writes.
World == [memo |-> _loaded_models, nc |-> nConstructed, loads |-> loads]

\* For each backend, the class of the exception its load raises if it fails
\* now: any class for a backend whose load would fail (one class is written
\* for the others, whose load cannot fail).
LoadErrors ==
  {ec \in [ModelType -> ErrClasses] :
     \A t \in ModelType :
       (t \in loadable \/ _loaded_models[t] # 0) => ec[t] = "RuntimeError"}

LoadEvent(model_type, kind) == [type |-> model_type, kind |-> kind]

\* A _load_model that never looks the memo up.
_load_model_noMemo(model_type, w, cls) ==
  IF model_type \notin loadable
    THEN [exc |-> cls, model |-> NoModel,
          w |-> [w EXCEPT !.loads = Append(@, LoadEvent(model_type, "failed"))]]
  ELSE LET g == w.nc[model_type] + 1 IN
         [exc |-> "none", model |-> [type |-> model_type, gen |-> g],
          w |-> [w EXCEPT !.memo[model_type] = g, !.nc[model_type] = g,
                          !.loads = Append(@, LoadEvent(model_type, "constructed"))]]

\* _load_model(model_type) when the load fails with an exception of class
\* cls whenever it fails: the memo is looked up first; a load that raises
\* (library missing, path unset, a bad *_N_CTX, the constructor) leaves the
\* memo as it was; a load that succeeds stores the new handle.
_load_model(model_type, w, cls) ==
  IF w.memo[model_type] # 0
    THEN [exc |-> "none",
          model |-> [type |-> model_type, gen |-> w.memo[model_type]],
          w |-> [w EXCEPT !.loads = Append(@, LoadEvent(model_type, "hit"))]]
  ELSE IF model_type \notin loadable
    THEN [exc |-> cls, model |-> NoModel,
          w |-> [w EXCEPT !.loads = Append(@, LoadEvent(model_type, "failed"))]]
  ELSE LET g == w.nc[model_type] + 1 IN
         [exc |-> "none", model |-> [type |-> model_type, gen |-> g],
          w |-> [w EXCEPT !.memo[model_type] = g, !.nc[model_type] = g,
                          !.loads = Append(@, LoadEvent(model_type, "constructed"))]]

\* _get_fallback_model(): a ValueError or a RuntimeError becomes a
\* RuntimeError; any other exception passes.
_get_fallback_model(w, ec) ==
  IF ~Recognised(FALLBACK_MODEL)
    THEN [exc |-> "RuntimeError", model |-> NoModel, w |-> w]
  ELSE LET model_type == _get_model_type_from_string(FALLBACK_MODEL)
           r == _load_model(model_type, w, ec[model_type])
       IN IF r.exc \in {"ValueError", "RuntimeError"}
            THEN [r EXCEPT !.exc = "RuntimeError"]
            ELSE r

\* _get_primary_model(): on a ValueError or a RuntimeError the fallback
\* model is returned in the primary's place.
_get_primary_model(w, ec) ==
  IF ~Recognised(PRIMARY_MODEL)
    THEN _get_fallback_model(w, ec)
  ELSE LET model_type == _get_model_type_from_string(PRIMARY_MODEL)
           r == _load_model(model_type, w, ec[model_type])
       IN IF r.exc \in {"ValueError", "RuntimeError"}
            THEN _get_fallback_model(r.w, ec)
            ELSE r

\* _get_bigger_model(): None unless USE_BIGGER_MODEL; only a RuntimeError
\* of the load is caught.
_get_bigger_model(w, ec) ==
  IF ~USE_BIGGER_MODEL
    THEN [exc |-> "none", model |-> NoModel, w |-> w]
  ELSE LET r == _load_model(LLAMA3_8B, w, ec[LLAMA3_8B])
       IN IF r.exc = "RuntimeError" THEN [r EXCEPT !.exc = "none"] ELSE r

\* generate_answer's locals as its selection starts (lines 274-278).
Frame0(w) ==
  [model |-> NoModel, model_name |-> "unknown",
   max_tokens |-> INITIAL_MAX_TOKENS, temperature |-> INITIAL_TEMPERATURE,
   exc |-> "none", returned |-> FALSE, w |-> w]

\* A frame still selecting: no exception has left the call, it has not
\* returned, and no model is chosen yet.
Selecting(f) == f.exc = "none" /\ ~f.returned /\ f.model = NoModel

WithDefaults(f, m, name, model_type) ==
  [f EXCEPT !.model = m, !.model_name = name,
            !.max_tokens = MODEL_CONFIGS[model_type].default_max_tokens,
            !.temperature = MODEL_CONFIGS[model_type].default_temperature]

\* Lines 280-288: the bigger model for a long prompt.
TryBigger(f, plen, use_bigger, ec) ==
  IF use_bigger /\ plen > LONG_PROMPT_CHARS
    THEN LET r == _get_bigger_model(f.w, ec)
             g == [f EXCEPT !.w = r.w]
         IN IF r.exc # "none" THEN [g EXCEPT !.exc = r.exc]
            ELSE IF r.model # NoModel
              THEN WithDefaults(g, r.model, "Llama-3.1-8B", LLAMA3_8B)
            ELSE g
    ELSE f

\* Lines 290-300: the preferred model; a ValueError or a RuntimeError is
\* caught and leaves model at None.
TryPreferred(f, preference, ec) ==
  IF Selecting(f) /\ preference # ""
    THEN IF ~Recognised(preference) THEN f
         ELSE LET model_type == _get_model_type_from_string(preference)
                  r == _load_model(model_type, f.w, ec[model_type])
                  g == [f EXCEPT !.w = r.w]
              IN IF r.exc \in {"ValueError", "RuntimeError"} THEN g
                 ELSE IF r.exc # "none" THEN [g EXCEPT !.exc = r.exc]
                 ELSE WithDefaults(g, r.model,
                                   MODEL_CONFIGS[model_type].description,
                                   model_type)
    ELSE f

\* Lines 302-312: the primary model; only a RuntimeError is caught, and
\* line 306 converts PRIMARY_MODEL once more after _get_primary_model has
\* returned.
TryPrimary(f, ec) ==
  IF Selecting(f)
    THEN LET r == _get_primary_model(f.w, ec)
             g == [f EXCEPT !.w = r.w]
         IN IF r.exc = "RuntimeError" THEN g
            ELSE IF r.exc # "none" THEN [g EXCEPT !.exc = r.exc]
            ELSE IF ~Recognised(PRIMARY_MODEL)
              THEN [g EXCEPT !.model = r.model, !.exc = "ValueError"]
            ELSE LET primary_type == _get_model_type_from_string(PRIMARY_MODEL)
                 IN WithDefaults(g, r.model,
                                 MODEL_CONFIGS[primary_type].description,
                                 primary_type)
    ELSE f

\* Lines 314-323: the fallback model, named and budgeted as TinyLlama; a
\* RuntimeError returns the no-models text.
TryFallback(f, ec) ==
  IF Selecting(f)
    THEN LET r == _get_fallback_model(f.w, ec)
             g == [f EXCEPT !.w = r.w]
         IN IF r.exc = "RuntimeError" THEN [g EXCEPT !.returned = TRUE]
            ELSE IF r.exc # "none" THEN [g EXCEPT !.exc = r.exc]
            ELSE WithDefaults(g, r.model,
                              MODEL_CONFIGS[TINYLLAMA].description, TINYLLAMA)
    ELSE f

\* Lines 325-327: the environment's overrides.
Overrides(f) ==
  IF f.exc = "none" /\ ~f.returned
    THEN [f EXCEPT
            !.max_tokens = IF LLAMA_MAX_TOKENS # 0 THEN LLAMA_MAX_TOKENS ELSE @,
            !.temperature = IF LLAMA_TEMPERATURE # 0 THEN LLAMA_TEMPERATURE ELSE @]
    ELSE f

\* A selection that tries the primary model before the preferred one.
SelectModel_primaryFirst(plen, preference, use_bigger, w, ec) ==
  Overrides(
    TryFallback(
      TryPreferred(
        TryPrimary(TryBigger(Frame0(w), plen, use_bigger, ec), ec),
        preference, ec),
      ec))

\* Lines 274-327: the selection of the model and of its settings.
SelectModel(plen, preference, use_bigger, w, ec) ==
  Overrides(
    TryFallback(
      TryPrimary(
        TryPreferred(
          TryBigger(Frame0(w), plen, use_bigger, ec),
          preference, ec),
        ec),
      ec))

\* "ind in msg" for one indicator: a contiguous run of msg's words.
Contains(msg, ind) ==
  \E i \in 1..Len(msg) :
    /\ i + Len(ind) - 1 <= Len(msg)
    /\ SubSeq(msg, i, i + Len(ind) - 1) = ind

\* any(ind in msg for ind in low_token_indicators)
HasIndicator(msg) ==
  \E k \in 1..Len(low_token_indicators) : Contains(msg, low_token_indicators[k])

Completion(m, mt, temp) == [model |-> m, max_tokens |-> mt, temperature |-> temp]

\* A returned text: which return statement made it, the model name and the
\* error message it quotes, and the note it ends with.
Result(kind, name, note, msg) ==
  [kind |-> kind, name |-> name, note |-> note, msg |-> msg]

\* Line 339: the text of the first completion.
FirstAnswer(name) == Result("Text", name, "none", <<>>)

\* Lines 360-363: the text of the retry, with its note.
RetryAnswer(name) == Result("Text", name, "reduced", <<>>)

\* The fallback model's text without its note.
FallbackAnswer_noNote(name) == Result("Text", name, "none", <<>>)

\* Line 378: the text of the fallback model, with its note.
FallbackAnswer(name) == Result("Text", name, "fallback", <<>>)

(* ------------------------------ Init ---------------------------------- *)

Init ==
  /\ PRIMARY_MODEL \in ModelStrings
  /\ FALLBACK_MODEL \in ModelStrings
  /\ USE_BIGGER_MODEL \in BOOLEAN
  /\ LLAMA_MAX_TOKENS \in MaxTokenOverrides
  /\ LLAMA_TEMPERATURE \in TemperatureOverrides
  /\ loadable \in SUBSET ModelType
  /\ _loaded_models = [t \in ModelType |-> 0]
  /\ _embedding_model = 0
  /\ _rerank_model = 0
  /\ nConstructed = [k \in MemoKeys |-> 0]
  /\ api = "none"
  /\ pc = "idle"
  /\ prompt_len = 0
  /\ model_preference = ""
  /\ use_bigger_for_long_context = FALSE
  /\ model = NoModel
  /\ model_name = "unknown"
  /\ max_tokens = INITIAL_MAX_TOKENS
  /\ temperature = INITIAL_TEMPERATURE
  /\ e = NoErr
  /\ e2 = <<>>
  /\ result = NoResult
  /\ raised = "none"
  /\ calls = <<>>
  /\ loads = <<>>
  /\ hits = <<>>
  /\ contextBuilt = FALSE
  /\ genInvocations = 0
  /\ tpc = [t \in Threads |-> "idle"]
  /\ tkey = [t \in Threads |-> "none"]
  /\ tmodel = [t \in Threads |-> 0]
  /\ cw = NoChunking
  /\ gt = NoExtraction
  /\ hs = NoSearch
  /\ rr = NoRerank
  /\ bc = NoContext
  /\ ci = NoCreate
  /\ ing = NoIngest
  /\ EMBEDDING_DIMENSION = 0
  /\ vector_EMBEDDING_DIMENSION = 0
  /\ _rerank_model_name = ""
  /\ podcast_index = NoIndex

(* ------------------- generate_answer, step by step -------------------- *)

\* The call returns r.
Return(r) == pc' = "done" /\ result' = r /\ raised' = "none"

\* The exception of class cls leaves the call.
Raise(cls) == pc' = "done" /\ result' = NoResult /\ raised' = cls

\* Lines 258-327: generate_answer is entered and selects its model.  ec
\* gives, for each backend, the class of the exception its load raises when
\* it fails.
Enter(plen, preference, use_bigger, ec) ==
  \E f \in {SelectModel(plen, preference, use_bigger, World, ec)} :
    /\ prompt_len' = plen
    /\ model_preference' = preference
    /\ use_bigger_for_long_context' = use_bigger
    /\ model' = f.model
    /\ model_name' = f.model_name
    /\ max_tokens' = f.max_tokens
    /\ temperature' = f.temperature
    /\ _loaded_models' = f.w.memo
    /\ nConstructed' = f.w.nc
    /\ loads' = f.w.loads
    /\ genInvocations' = genInvocations + 1
    /\ IF f.exc # "none" THEN Raise(f.exc)
       ELSE IF f.returned
         THEN Return(Result("NoModels", f.model_name, "none", <<>>))
       ELSE pc' = "first" /\ UNCHANGED <<result, raised>>

\* A direct call of generate_answer.
GenerateAnswer ==
  /\ pc = "idle"
  /\ api' = "generate"
  /\ \E shape \in CallShapes, preference \in Preferences, ec \in LoadErrors :
       Enter(shape[1], preference, shape[2], ec)
  /\ UNCHANGED <<frames, libstate, config, loadable, _embedding_model, _rerank_model, e, e2,
                 calls, hits, contextBuilt, threads>>

\* Lines 329-343 and 383: the first completion call.
FirstCompletion ==
  /\ pc = "first"
  /\ calls' = Append(calls, Completion(model, max_tokens, temperature))
  /\ \E out \in Outcomes :
       CASE out.kind = "text" ->
              /\ Return(FirstAnswer(model_name))
              /\ UNCHANGED e
         [] out.kind = "empty" ->
              /\ Return(Result("NoOutput", model_name, "none", <<>>))
              /\ UNCHANGED e
         [] out.kind = "raise" /\ out.cls = "RuntimeError" ->
              /\ e' = [cls |-> out.cls, msg |-> out.msg]
              /\ Return(Result("ErrorWith", model_name, "none", out.msg))
         [] out.kind = "raise" /\ out.cls # "RuntimeError" ->
              /\ e' = [cls |-> out.cls, msg |-> out.msg]
              /\ IF HasIndicator(out.msg)
                   THEN pc' = "retry" /\ UNCHANGED <<result, raised>>
                   ELSE Return(Result("ErrorGenerating", model_name, "none",
                                      out.msg))
  /\ UNCHANGED <<frames, libstate, config, loadable, memo, api, args, model, model_name,
                 max_tokens, temperature, e2, loads, askvars, threads>>

\* The test of line 366: the fallback model is tried unless the model in
\* use is named as TinyLlama.
NotAlreadyFallback(name) == name # MODEL_CONFIGS[TINYLLAMA].description

\* Lines 348-366: the retry on the same model with a reduced budget.
RetryCompletion ==
  /\ pc = "retry"
  /\ LET fallback_max == Min(REDUCED_MAX_TOKENS, max_tokens) IN
       calls' = Append(calls, Completion(model, fallback_max, temperature))
  /\ \E out \in Outcomes :
       CASE out.kind = "text" ->
              /\ Return(RetryAnswer(model_name))
              /\ UNCHANGED e2
         [] out.kind = "empty" ->
              /\ Return(Result("NoOutputAfterRetry", model_name, "none", <<>>))
              /\ UNCHANGED e2
         [] out.kind = "raise" ->
              /\ e2' = out.msg
              /\ IF NotAlreadyFallback(model_name)
                   THEN pc' = "fallback" /\ UNCHANGED <<result, raised>>
                   ELSE Return(Result("ErrorAfterReducing", model_name, "none",
                                      out.msg))
  /\ UNCHANGED <<frames, libstate, config, loadable, memo, api, args, model, model_name,
                 max_tokens, temperature, e, loads, askvars, threads>>

\* Lines 367-381: one call on the fallback model with TinyLlama's defaults;
\* whatever fails in it is passed over.
FallbackCompletion ==
  /\ pc = "fallback"
  /\ \E ec \in LoadErrors, out \in Outcomes :
     \E r \in {_get_fallback_model(World, ec)} :
       LET fallback_config == MODEL_CONFIGS[TINYLLAMA]
           failed == Result("ErrorAfterReducing", model_name, "none", e2)
       IN /\ _loaded_models' = r.w.memo
          /\ nConstructed' = r.w.nc
          /\ loads' = r.w.loads
          /\ IF r.exc # "none"
               THEN Return(failed) /\ UNCHANGED calls
               ELSE /\ calls' = Append(calls,
                                       Completion(r.model,
                                                  fallback_config.default_max_tokens,
                                                  fallback_config.default_temperature))
                    /\ IF out.kind = "text"
                         THEN Return(FallbackAnswer(model_name))
                         ELSE Return(failed)
  /\ UNCHANGED <<frames, libstate, config, loadable, _embedding_model, _rerank_model, api, args,
                 locals, askvars, threads>>

\* The caller has the result; the next call starts from fresh locals.
Finish ==
  /\ pc = "done"
  /\ api' = "none"
  /\ pc' = "idle"
  /\ prompt_len' = 0
  /\ model_preference' = ""
  /\ use_bigger_for_long_context' = FALSE
  /\ model' = NoModel
  /\ model_name' = "unknown"
  /\ max_tokens' = INITIAL_MAX_TOKENS
  /\ temperature' = INITIAL_TEMPERATURE
  /\ e' = NoErr
  /\ e2' = <<>>
  /\ result' = NoResult
  /\ raised' = "none"
  /\ calls' = <<>>
  /\ loads' = <<>>
  /\ hits' = <<>>
  /\ contextBuilt' = FALSE
  /\ genInvocations' = 0
  /\ UNCHANGED <<frames, libstate, config, loadable, memo, threads>>

\* Between two calls a model file or path appears or disappears.  Only the
\* backends not memoized yet are followed: _load_model reads nothing of a
\* memoized backend's path or file again.
EnvChange ==
  /\ pc = "idle"
  /\ \E s \in SUBSET ModelType :
       /\ s # loadable
       /\ \A t \in ModelType : _loaded_models[t] # 0 => (t \in s <=> t \in loadable)
       /\ loadable' = s
  /\ UNCHANGED <<frames, libstate, config, memo, api, pc, args, locals, result, raised, calls,
                 loads, askvars, threads>>

Next ==
  \/ GenerateAnswer
  \/ FirstCompletion
  \/ RetryCompletion
  \/ FallbackCompletion
  \/ Finish
  \/ EnvChange

Spec == Init /\ [][Next]_vars

(* ---------------- src/rag.py: ask_podcast_question -------------------- *)

\* What the document store returns to one search: its hits, in its order.
HitLists == {[i \in 1..n |-> i] : n \in 0..MaxHits}

\* src/ingest/embed.py, get_embedding_model(): the memo is looked up
\* first; ok tells whether the library is present and the constructor
\* succeeds.
get_embedding_model(em, nc, ok) ==
  IF em # 0 THEN [exc |-> "none", em |-> em, nc |-> nc]
  ELSE IF ~ok THEN [exc |-> "RuntimeError", em |-> em, nc |-> nc]
  ELSE [exc |-> "none", em |-> nc[EMBEDDING] + 1,
        nc |-> [nc EXCEPT ![EMBEDDING] = @ + 1]]

\* A test that lets an empty hit list through to generation.
NoHits_never(h) == FALSE

\* Line 142: "if not hits".
NoHits(h) == h = <<>>

\* Line 143: the fixed answer.
NoHitsResult == Result(NO_HITS_ANSWER, "", "none", <<>>)

\* Lines 112-132: ask_podcast_question is entered and embeds the question
\* (embed_text: get_embedding_model, then encode, which may raise too).
AskPodcastQuestion ==
  /\ pc = "idle"
  /\ api' = "ask"
  /\ \E ok \in BOOLEAN, encoded \in BOOLEAN :
       \E r \in {get_embedding_model(_embedding_model, nConstructed, ok)} :
         /\ _embedding_model' = r.em
         /\ nConstructed' = r.nc
         /\ \E d \in EmbeddingDimensions :
              EMBEDDING_DIMENSION' =
                IF r.em # _embedding_model THEN d ELSE EMBEDDING_DIMENSION
         /\ IF r.exc # "none" THEN Raise(r.exc)
            ELSE IF ~encoded THEN Raise("Exception")
            ELSE pc' = "search" /\ UNCHANGED <<result, raised>>
  /\ UNCHANGED <<frames, vector_EMBEDDING_DIMENSION, _rerank_model_name,
                 podcast_index, config, loadable, _loaded_models,
                 _rerank_model, args, locals, calls, loads, askvars, threads>>

\* Lines 133-143: the search; the store may fail; no hits end the call
\* with the fixed answer.
AskSearch ==
  /\ pc = "search"
  /\ \/ /\ Raise("Exception")
        /\ UNCHANGED hits
     \/ \E h \in HitLists :
          /\ hits' = h
          /\ IF NoHits(h) THEN Return(NoHitsResult)
             ELSE pc' = "context" /\ UNCHANGED <<result, raised>>
  /\ UNCHANGED <<frames, libstate, config, loadable, memo, api, args, locals, calls, loads,
                 contextBuilt, genInvocations, threads>>

\* Lines 145-146: build_context and build_podcast_prompt give the prompt.
AskBuildContext ==
  /\ pc = "context"
  /\ contextBuilt' = TRUE
  /\ prompt_len' \in PromptLens
  /\ pc' = "generate"
  /\ UNCHANGED <<frames, libstate, config, loadable, memo, api, model_preference,
                 use_bigger_for_long_context, locals, result, raised, calls,
                 loads, hits, genInvocations, threads>>

\* Line 147: generate_answer(prompt), with its default arguments.
AskGenerate ==
  /\ pc = "generate"
  /\ \E ec \in LoadErrors : Enter(prompt_len, "", FALSE, ec)
  /\ UNCHANGED <<frames, libstate, config, loadable, _embedding_model, _rerank_model, api, e, e2,
                 calls, hits, contextBuilt, threads>>

NextAsk ==
  \/ AskPodcastQuestion
  \/ AskSearch
  \/ AskBuildContext
  \/ AskGenerate
  \/ FirstCompletion
  \/ RetryCompletion
  \/ FallbackCompletion
  \/ Finish
  \/ EnvChange

SpecAsk == Init /\ [][NextAsk]_vars

(* --------------- the memoized loads under concurrent requests --------- *)

\* The memo slot of a model.
MemoOf(k) ==
  IF k \in ModelType THEN _loaded_models[k]
  ELSE IF k = EMBEDDING THEN _embedding_model
  ELSE _rerank_model

\* A request thread calls a loader: _load_model(k), get_embedding_model()
\* or get_rerank_model().
ThreadCall(t) ==
  /\ tpc[t] = "idle"
  /\ \E k \in MemoKeys : tkey' = [tkey EXCEPT ![t] = k]
  /\ tpc' = [tpc EXCEPT ![t] = "check"]
  /\ UNCHANGED <<frames, libstate, config, loadable, memo, api, pc, args, locals, result, raised,
                 calls, loads, askvars, tmodel>>

\* "if _loaded_models[model_type] is not None: return ...",
\* "if _embedding_model is None:", "if _rerank_model is None:".
ThreadCheck(t) ==
  /\ tpc[t] = "check"
  /\ IF MemoOf(tkey[t]) # 0
       THEN tpc' = [tpc EXCEPT ![t] = "idle"] /\ tkey' = [tkey EXCEPT ![t] = "none"]
       ELSE tpc' = [tpc EXCEPT ![t] = "construct"] /\ UNCHANGED tkey
  /\ UNCHANGED <<frames, libstate, config, loadable, memo, api, pc, args, locals, result, raised,
                 calls, loads, askvars, tmodel>>

\* The constructor call: Llama(...), SentenceTransformer(...),
\* CrossEncoder(...).  It raises, and the call ends, or it gives a handle.
ThreadConstruct(t) ==
  /\ tpc[t] = "construct"
  /\ \E ok \in (IF tkey[t] \in ModelType THEN {tkey[t] \in loadable} ELSE BOOLEAN) :
       IF ok
         THEN /\ nConstructed' = [nConstructed EXCEPT ![tkey[t]] = @ + 1]
              /\ tmodel' = [tmodel EXCEPT ![t] = nConstructed[tkey[t]] + 1]
              /\ tpc' = [tpc EXCEPT ![t] = "store"]
              /\ UNCHANGED tkey
         ELSE /\ tpc' = [tpc EXCEPT ![t] = "idle"]
              /\ tkey' = [tkey EXCEPT ![t] = "none"]
              /\ UNCHANGED <<nConstructed, tmodel>>
  /\ UNCHANGED <<frames, libstate, config, loadable, _loaded_models, _embedding_model,
                 _rerank_model, api, pc, args, locals, result, raised, calls,
                 loads, askvars>>

\* The assignment of the handle to the memo, and the return.
ThreadStore(t) ==
  /\ tpc[t] = "store"
  /\ _loaded_models' = IF tkey[t] \in ModelType
                         THEN [_loaded_models EXCEPT ![tkey[t]] = tmodel[t]]
                         ELSE _loaded_models
  /\ _embedding_model' = IF tkey[t] = EMBEDDING THEN tmodel[t] ELSE _embedding_model
  /\ _rerank_model' = IF tkey[t] = RERANK THEN tmodel[t] ELSE _rerank_model
  /\ tpc' = [tpc EXCEPT ![t] = "idle"]
  /\ tkey' = [tkey EXCEPT ![t] = "none"]
  /\ tmodel' = [tmodel EXCEPT ![t] = 0]
  /\ \E d \in EmbeddingDimensions :
       EMBEDDING_DIMENSION' =
         IF tkey[t] = EMBEDDING THEN d ELSE EMBEDDING_DIMENSION
  /\ _rerank_model_name' =
       IF tkey[t] = RERANK THEN DEFAULT_RERANK_MODEL ELSE _rerank_model_name
  /\ UNCHANGED <<frames, vector_EMBEDDING_DIMENSION, podcast_index, config,
                 loadable, nConstructed, api, pc, args, locals, result,
                 raised, calls, loads, askvars>>

\* The configuration of the concurrent runs: the defaults of lines 49-51.
InitConc ==
  /\ Init
  /\ PRIMARY_MODEL = "phi3_mini"
  /\ FALLBACK_MODEL = "tinyllama"
  /\ USE_BIGGER_MODEL = FALSE
  /\ LLAMA_MAX_TOKENS = 0
  /\ LLAMA_TEMPERATURE = 0

NextConc ==
  \E t \in Threads :
    \/ ThreadCall(t)
    \/ ThreadCheck(t)
    \/ ThreadConstruct(t)
    \/ ThreadStore(t)

SpecConc == InitConc /\ [][NextConc]_vars

(* ------------ src/ingest/chunk.py: chunk_by_semantic_windows ---------- *)

\* A text is the sequence of its words; a word of a transcript is named by
\* its block and its place in the block.
Block(b, n) == [j \in 1..n |-> <<b, j>>]

\* Lines 27-47: the splitting step gives the blocks, each stripped and
\* non-empty; here, by their numbers of words.
BlockSizes == UNION {[1..n -> 1..MaxBlockWords] : n \in 0..MaxBlocks}
Blocks(sizes) == [b \in 1..Len(sizes) |-> Block(b, sizes[b])]

ChunkMaxTokens == {3, 4}
ChunkOverlaps == 0..4

\* Lines 50-51: int(len(txt.split()) * 1.3).
estimate_tokens(txt) == (Len(txt) * 13) \div 10

\* " ".join(buffer), as words.
RECURSIVE Join(_)
Join(buffer) ==
  IF buffer = <<>> THEN <<>> ELSE Head(buffer) \o Join(Tail(buffer))

\* chunk_text.split(): a list of one-word strings.
Split(txt) == [k \in 1..Len(txt) |-> <<txt[k]>>]

\* Line 66: int(overlap / 1.3).
OverlapWords(overlap) == (overlap * 10) \div 13

\* The slice xs[-n:] of Python: -0 is 0, so the slice is the whole list
\* when n is 0.
LastItems(xs, n) ==
  IF n = 0 \/ n >= Len(xs) THEN xs ELSE SubSeq(xs, Len(xs) - n + 1, Len(xs))

\* Positions counted from one.
ChunkRecords_fromOne(chunks) ==
  [k \in 1..Len(chunks) |->
     [text |-> chunks[k], timestamp |-> "None", paragraph_index |-> k]]

\* Lines 76-83: the records returned, enumerate() counting from zero.
ChunkRecords(chunks) ==
  [k \in 1..Len(chunks) |->
     [text |-> chunks[k], timestamp |-> "None", paragraph_index |-> k - 1]]

\* Lines 12, 27-55: the call, the splitting step and the empty buffer.
ChunkCall ==
  /\ cw.pc = "idle"
  /\ \E sizes \in BlockSizes, mt \in ChunkMaxTokens, ov \in ChunkOverlaps :
       cw' = [NoChunking EXCEPT !.pc = "loop", !.blocks = Blocks(sizes),
                                !.max_tokens = mt, !.overlap = ov, !.i = 1]
  /\ UNCHANGED <<base, libstate, gt, hs, rr, bc, ci, ing>>

\* Lines 57-71: one turn of the loop, for block i.  seeds records the
\* buffer of line 67 at each emission.
ChunkStep ==
  /\ cw.pc = "loop"
  /\ cw.i <= Len(cw.blocks)
  /\ LET block == cw.blocks[cw.i]
         tokens == estimate_tokens(block)
         emit == cw.token_count + tokens > cw.max_tokens
         chunk_text == Join(cw.buffer)
         seed == LastItems(Split(chunk_text), OverlapWords(cw.overlap))
     IN cw' = [cw EXCEPT
                 !.chunks = IF emit THEN Append(@, chunk_text) ELSE @,
                 !.seeds = IF emit THEN Append(@, Join(seed)) ELSE @,
                 !.buffer = Append(IF emit THEN seed ELSE @, block),
                 !.token_count =
                    (IF emit THEN estimate_tokens(Join(seed)) ELSE @) + tokens,
                 !.i = @ + 1]
  /\ UNCHANGED <<base, libstate, gt, hs, rr, bc, ci, ing>>

\* Lines 73-83: the trailing buffer is emitted and the records returned.
ChunkReturn ==
  /\ cw.pc = "loop"
  /\ cw.i > Len(cw.blocks)
  /\ \E chunks \in {IF cw.buffer # <<>> THEN Append(cw.chunks, Join(cw.buffer))
                      ELSE cw.chunks} :
       cw' = [cw EXCEPT !.pc = "done", !.chunks = chunks,
                        !.result = ChunkRecords(chunks)]
  /\ UNCHANGED <<base, libstate, gt, hs, rr, bc, ci, ing>>

\* The state in which the library functions are called: the configuration
\* of lines 49-51 of src/llm/prompt.py, nothing loaded.
InitLib == InitConc /\ loadable = {}

NextChunk ==
  \/ ChunkCall
  \/ ChunkStep
  \/ ChunkReturn

SpecChunk == InitLib /\ [][NextChunk]_vars

(* ------------- src/ingest/chunk.py: extract_guest_from_title ---------- *)

\* A title is the sequence of its words, one space between two words.
\* The words that [A-Z][a-z]+ matches, and those it matches under
\* re.IGNORECASE, where the two classes [A-Z] and [a-z] match any letter.
CapWords == {"Jane", "Doe"}
AlphaWords == CapWords \cup {"with", "ft", "featuring", "on", "the"}
TitleWords == AlphaWords \cup {"|", "-", "2024"}
Titles == UNION {[1..n -> TitleWords] : n \in 0..MaxTitleWords}

\* The end of the longest run of words of W that starts at p (p - 1 when
\* there is none): the greedy [A-Z][a-z]+(?:\s+[A-Z][a-z]+)+.
RunEnd(title, p, W) ==
  LET qs == {q \in p..Len(title) : \A j \in p..q : title[j] \in W}
  IN IF qs = {} THEN p - 1 ELSE CHOOSE q \in qs : \A r \in qs : r <= q

\* re.search of keyword\s+(name): the leftmost keyword followed by two
\* words of W or more; the group is the run.  <<>> when there is no match.
SearchAfter(title, keys, W) ==
  LET ps == {p \in 1..Len(title) :
               title[p] \in keys /\ RunEnd(title, p + 1, W) >= p + 2}
  IN IF ps = {} THEN <<>>
     ELSE LET p == CHOOSE x \in ps : \A y \in ps : x <= y
          IN SubSeq(title, p + 1, RunEnd(title, p + 1, W))

\* Line 96, with re.IGNORECASE.
MatchWith(title) == SearchAfter(title, {"with"}, AlphaWords)

\* Line 100, with re.IGNORECASE.
MatchFeaturing(title) == SearchAfter(title, {"ft", "featuring"}, AlphaWords)

\* Line 104: ^(name)\s+on\s+, case-sensitive.
MatchOn(title) ==
  LET q == RunEnd(title, 1, CapWords)
  IN IF q >= 2 /\ q + 2 <= Len(title) /\ title[q + 1] = "on"
       THEN SubSeq(title, 1, q) ELSE <<>>

\* Line 108: [|\-]\s*(name)\s*$, case-sensitive.
MatchTrailing(title) ==
  LET ps == {p \in 1..Len(title) :
               /\ title[p] \in {"|", "-"}
               /\ Len(title) - p >= 2
               /\ \A j \in (p + 1)..Len(title) : title[j] \in CapWords}
  IN IF ps = {} THEN <<>>
     ELSE SubSeq(title, (CHOOSE x \in ps : \A y \in ps : x <= y) + 1, Len(title))

\* Lines 96-112: the first pattern that matches gives the guest.
extract_guest_from_title(title) ==
  [title |-> title,
   guest |-> IF MatchWith(title) # <<>> THEN MatchWith(title)
             ELSE IF MatchFeaturing(title) # <<>> THEN MatchFeaturing(title)
             ELSE IF MatchOn(title) # <<>> THEN MatchOn(title)
             ELSE MatchTrailing(title)]

ExtractGuest ==
  /\ gt.pc = "idle"
  /\ \E title \in Titles :
       gt' = [pc |-> "done", title |-> title,
              result |-> extract_guest_from_title(title)]
  /\ UNCHANGED <<base, libstate, cw, hs, rr, bc, ci, ing>>

\* The caller drops the result (src/rag.py, line 51).
GuestFinish ==
  /\ gt.pc = "done"
  /\ gt' = NoExtraction
  /\ UNCHANGED <<base, libstate, cw, hs, rr, bc, ci, ing>>

NextGuest ==
  \/ ExtractGuest
  \/ GuestFinish

SpecGuest == InitLib /\ [][NextGuest]_vars

(* ------------------ src/index/hybrid.py: hybrid_search ---------------- *)

\* The elements of a sequence.
Range(xs) == {xs[k] : k \in DOMAIN xs}

\* A stored chunk: its collection, its topics, and whether its text matches
\* the query text lexically.
DocKinds ==
  [podcast_name : {"A", "B"}, topics : {{"x"}, {"y"}}, lex : BOOLEAN]

\* The content of the store, in the order in which the store ranks it.
Stores == UNION {[1..n -> DocKinds] : n \in 0..MaxDocs}

QueryTexts == {"", "q"}
SearchSizes == {1, 2}
PodcastFilters == {NoneStr, Some(""), Some("A")}
TopicFilters == {NoneList, Some(<<>>), Some(<<"x">>)}

\* The filter clauses without the one on topics.
Filters_noTopics(podcast_name, topics) ==
  IF podcast_name.some /\ podcast_name.v # ""
    THEN <<[kind |-> "term", field |-> "podcast_name", value |-> podcast_name.v]>>
    ELSE <<>>

\* Lines 36-40: the filter clauses; "if podcast_name:" and "if topics:" are
\* false for None and for an empty string or list.
Filters(podcast_name, topics) ==
  (IF podcast_name.some /\ podcast_name.v # ""
     THEN <<[kind |-> "term", field |-> "podcast_name", value |-> podcast_name.v]>>
     ELSE <<>>)
  \o (IF topics.some /\ topics.v # <<>>
        THEN <<[kind |-> "terms", field |-> "topics", value |-> topics.v]>>
        ELSE <<>>)

\* The lexical clause whatever the query text.
MustClause_alwaysMatch(user_query) ==
  [kind |-> "match", field |-> "chunk_text", query |-> user_query]

\* Line 42: the must clause.
MustClause(user_query) ==
  IF user_query # ""
    THEN [kind |-> "match", field |-> "chunk_text", query |-> user_query]
    ELSE [kind |-> "match_all", field |-> "", query |-> ""]

\* Lines 44-62: the request body.  The "filter" key is left out when there
\* is no filter clause: an empty filter here.
Body(user_query, size, podcast_name, topics) ==
  [size |-> size,
   must |-> MustClause(user_query),
   should |-> [kind |-> "knn", field |-> "embedding", k |-> size],
   filter |-> Filters(podcast_name, topics)]

\* The store's evaluation of a filter clause and of the must clause on a
\* chunk: term is equality, terms is membership of one of the values; a
\* match with an empty text matches nothing.
SatisfiesFilter(doc, c) ==
  IF c.kind = "term" THEN doc.podcast_name = c.value
  ELSE doc.topics \cap Range(c.value) # {}

SatisfiesMust(doc, m) ==
  IF m.kind = "match_all" THEN TRUE ELSE m.query # "" /\ doc.lex

\* The places, from i on, of the chunks that the query selects.
RECURSIVE SelectIds(_, _, _)
SelectIds(store, body, i) ==
  IF i > Len(store) THEN <<>>
  ELSE (IF /\ SatisfiesMust(store[i], body.must)
           /\ \A c \in Range(body.filter) : SatisfiesFilter(store[i], c)
          THEN <<i>> ELSE <<>>) \o SelectIds(store, body, i + 1)

\* Line 64, client.search: the chunks that satisfy the must clause and
\* every filter clause (the should clause only adds to the score), the
\* first size of them in the store's ranking, as raw hits.
StoreSearch(store, body) ==
  LET ids == SelectIds(store, body, 1)
      n == Min(body.size, Len(ids))
  IN [k \in 1..n |->
        [_index |-> "podcasts", _id |-> ids[k],
         _score |-> MaxDocs + 1 - ids[k], _source |-> store[ids[k]]]]

\* Lines 48-55, the knn clause: the store finds the k chunks nearest to the
\* query embedding, any k of its chunks (all of them when it has fewer).
NearestNeighbours(store, k) ==
  {ids \in SUBSET DOMAIN store : Cardinality(ids) = Min(k, Len(store))}

\* Lines 67-74: the three fields kept of each raw hit.
ReturnedHits(raw) ==
  [k \in 1..Len(raw) |->
     [_id |-> raw[k]._id, _score |-> raw[k]._score, _source |-> raw[k]._source]]

\* Lines 10-62: the call, and the body it builds.
HybridSearchCall ==
  /\ hs.pc = "idle"
  /\ \E store \in Stores, user_query \in QueryTexts, size \in SearchSizes,
        podcast_name \in PodcastFilters, topics \in TopicFilters :
       hs' = [NoSearch EXCEPT
                !.pc = "sent", !.store = store, !.user_query = user_query,
                !.size = size, !.podcast_name = podcast_name, !.topics = topics,
                !.body = Body(user_query, size, podcast_name, topics)]
  /\ UNCHANGED <<base, libstate, cw, gt, rr, bc, ci, ing>>

\* Lines 64-74: the store answers and the hits are returned, or the store
\* fails and its error leaves the call.
HybridSearchReturn ==
  /\ hs.pc = "sent"
  /\ \/ hs' = [hs EXCEPT !.pc = "done", !.raised = "Exception"]
     \/ \E raw \in {StoreSearch(hs.store, hs.body)},
           nearest \in NearestNeighbours(hs.store, hs.body.should.k) :
          hs' = [hs EXCEPT !.pc = "done", !.nearest = nearest,
                           !.response = raw, !.result = ReturnedHits(raw)]
  /\ UNCHANGED <<base, libstate, cw, gt, rr, bc, ci, ing>>

NextSearch ==
  \/ HybridSearchCall
  \/ HybridSearchReturn

SpecSearch == InitLib /\ [][NextSearch]_vars

(* ------------ src/rerank/cross_encoder.py: rerank_results ------------- *)

\* The hits given to one call: n hits with distinct identifiers, in the
\* order of their retrieval scores.
RerankInput(n) ==
  [i \in 1..n |->
     [_id |-> i, _score |-> MaxRerankHits + 1 - i,
      _source |-> [chunk_text |-> i]]]

\* top_k: None, or a number of hits.
TopKs == {[some |-> FALSE, v |-> 0]} \cup {Some(k) : k \in 0..(MaxRerankHits + 1)}

\* The scores the cross-encoder gives; two hits may get the same score.
RerankScores == {1, 2, 3}

\* model_name: None, or the name of a cross-encoder.
RerankModelNames == {NoneStr, Some("cross-encoder/ms-marco-TinyBERT-L-2-v2")}

\* Line 38: model_name or DEFAULT_RERANK_MODEL.
RequestedRerankModel(name) ==
  IF name.some /\ name.v # "" THEN name.v
  ELSE DEFAULT_RERANK_MODEL

\* Lines 18-41, get_rerank_model(): the memo is looked up first; ok tells
\* whether the library is present and the constructor succeeds.
get_rerank_model(rm, nc, ok) ==
  IF rm # 0 THEN [exc |-> "none", rm |-> rm, nc |-> nc]
  ELSE IF ~ok THEN [exc |-> "RuntimeError", rm |-> rm, nc |-> nc]
  ELSE [exc |-> "none", rm |-> nc[RERANK] + 1,
        nc |-> [nc EXCEPT ![RERANK] = @ + 1]]

\* The score written over the retrieval score.
WithRerankScores_overwrite(hit_list, scores) ==
  [i \in DOMAIN hit_list |->
     [hit_list[i] EXCEPT !._score = scores[i]] @@ ("_rerank_score" :> scores[i])]

\* Lines 76-77: hit["_rerank_score"] = float(scores[i]).
WithRerankScores(hit_list, scores) ==
  [i \in DOMAIN hit_list |-> hit_list[i] @@ ("_rerank_score" :> scores[i])]

\* A sort that puts hits of equal score in the reverse of their order.
SortedDesc_unstable(xs) ==
  LET Before(j, i) ==
        \/ xs[j]._rerank_score > xs[i]._rerank_score
        \/ xs[j]._rerank_score = xs[i]._rerank_score /\ j > i
      Place(i) == Cardinality({j \in DOMAIN xs : Before(j, i)}) + 1
  IN [k \in DOMAIN xs |-> xs[CHOOSE i \in DOMAIN xs : Place(i) = k]]

\* A result that repeats the first hit.
SortedDesc_firstOnly(xs) == [k \in DOMAIN xs |-> xs[1]]

\* Line 80: sorted(hits, key=_rerank_score, reverse=True); Python's sort is
\* stable, with reverse too: equal keys keep their order.
SortedDesc(xs) ==
  LET Before(j, i) ==
        \/ xs[j]._rerank_score > xs[i]._rerank_score
        \/ xs[j]._rerank_score = xs[i]._rerank_score /\ j < i
      Place(i) == Cardinality({j \in DOMAIN xs : Before(j, i)}) + 1
  IN [k \in DOMAIN xs |-> xs[CHOOSE i \in DOMAIN xs : Place(i) = k]]

\* Lines 83-84: reranked[:top_k] when top_k is not None.
TopK(xs, top_k) ==
  IF top_k.some THEN SubSeq(xs, 1, Min(top_k.v, Len(xs))) ELSE xs

\* Lines 44-69: the call; no hits end it at once with an empty list.
RerankCall ==
  /\ rr.pc = "idle"
  /\ \E n \in 0..MaxRerankHits, top_k \in TopKs, name \in RerankModelNames :
       rr' = [NoRerank EXCEPT !.hits = RerankInput(n), !.top_k = top_k,
                              !.model_name = name,
                              !.pc = IF n = 0 THEN "done" ELSE "load"]
  /\ UNCHANGED <<base, libstate, cw, gt, hs, bc, ci, ing>>

\* Line 72: get_rerank_model(model_name); its error leaves the call.
RerankLoad ==
  /\ rr.pc = "load"
  /\ \E ok \in BOOLEAN :
       \E r \in {get_rerank_model(_rerank_model, nConstructed, ok)} :
         /\ _rerank_model' = r.rm
         /\ nConstructed' = r.nc
         /\ \E name \in {IF r.rm # _rerank_model
                              THEN RequestedRerankModel(rr.model_name)
                              ELSE _rerank_model_name} :
              /\ _rerank_model_name' = name
              /\ rr' = IF r.exc # "none"
                         THEN [rr EXCEPT !.pc = "done", !.raised = r.exc]
                         ELSE [rr EXCEPT !.pc = "predict", !.model = r.rm,
                                         !.loaded_from = name]
  /\ UNCHANGED <<config, loadable, _loaded_models, _embedding_model, api, pc,
                 args, locals, result, raised, calls, loads, askvars, threads,
                 cw, gt, hs, bc, ci, ing, EMBEDDING_DIMENSION,
                 vector_EMBEDDING_DIMENSION, podcast_index>>

\* Line 73: model.predict(pairs) gives one score for each pair, or fails.
RerankPredict ==
  /\ rr.pc = "predict"
  /\ \/ rr' = [rr EXCEPT !.pc = "done", !.raised = "Exception"]
     \/ \E scores \in [DOMAIN rr.hits -> RerankScores] :
          rr' = [rr EXCEPT !.pc = "sort", !.scores = scores]
  /\ UNCHANGED <<base, libstate, cw, gt, hs, bc, ci, ing>>

\* Lines 75-86: the scores are stored, the hits sorted and cut to top_k.
RerankReturn ==
  /\ rr.pc = "sort"
  /\ rr' = [rr EXCEPT
              !.pc = "done",
              !.result = TopK(SortedDesc(WithRerankScores(rr.hits, rr.scores)),
                              rr.top_k)]
  /\ UNCHANGED <<base, libstate, cw, gt, hs, bc, ci, ing>>

\* The call is over; the memoized model stays.
RerankFinish ==
  /\ rr.pc = "done"
  /\ rr' = NoRerank
  /\ UNCHANGED <<base, libstate, cw, gt, hs, bc, ci, ing>>

NextRerank ==
  \/ RerankCall
  \/ RerankLoad
  \/ RerankPredict
  \/ RerankReturn
  \/ RerankFinish

SpecRerank == InitLib /\ [][NextRerank]_vars

(***************************************************************************)
(* build_context (src/llm/prompt.py, lines 197-229): the transcript part   *)
(* of one rendered hit.  A chunk text is its sequence of characters,       *)
(* letters and spaces; the headers of the hit are copied without a test    *)
(* and are left out.                                                       *)
(***************************************************************************)

\* The longest chunk text of the model, in characters.
MaxChunkChars == 5

Chars == {"a", " "}

ChunkTexts == UNION {[1..n -> Chars] : n \in 0..MaxChunkChars}

\* Line 64: the values of CONTEXT_CHUNK_MAX_CHARS, int() of the environment
\* variable: 0 is one of them.
CharBudgets == {0, 2, 3}

\* Line 219: the marker "... [truncated]", its 15 characters.
TRUNCATION_MARKER ==
  <<".", ".", ".", " ", "[", "t", "r", "u", "n", "c", "a", "t", "e", "d", "]">>

\* chunk_text[:n]
Prefix(txt, n) == SubSeq(txt, 1, Min(n, Len(txt)))

\* The position of the last space of a text, 0 when it has none.
LastSpace(txt) ==
  IF \E i \in DOMAIN txt : txt[i] = " "
    THEN CHOOSE i \in DOMAIN txt :
           txt[i] = " " /\ \A j \in DOMAIN txt : txt[j] = " " => j <= i
    ELSE 0

\* Lines 217-218: truncated.rsplit(" ", 1)[0] when the text has a space.
BeforeLastSpace(txt) ==
  IF LastSpace(txt) # 0 THEN SubSeq(txt, 1, LastSpace(txt) - 1) ELSE txt

\* Lines 213-219: the chunk text as rendered under a budget.
TruncatedChunkText(budget, txt) ==
  IF budget # 0 /\ Len(txt) > budget
    THEN BeforeLastSpace(Prefix(txt, budget)) \o TRUNCATION_MARKER
    ELSE txt

\* build_context is called with a hit; the budget is the module's constant.
BuildContextCall ==
  /\ bc.pc = "idle"
  /\ \E budget \in CharBudgets, txt \in ChunkTexts :
       bc' = [NoContext EXCEPT !.pc = "render",
                               !.CONTEXT_CHUNK_MAX_CHARS = budget,
                               !.chunk_text = txt]
  /\ UNCHANGED <<base, libstate, cw, gt, hs, rr, ci, ing>>

\* Lines 212-228: the hit is rendered.
BuildContextRender ==
  /\ bc.pc = "render"
  /\ bc' = [bc EXCEPT !.pc = "done",
                      !.rendered = TruncatedChunkText(bc.CONTEXT_CHUNK_MAX_CHARS,
                                                      bc.chunk_text)]
  /\ UNCHANGED <<base, libstate, cw, gt, hs, rr, ci, ing>>

\* Line 229: the call returns.
BuildContextReturn ==
  /\ bc.pc = "done"
  /\ bc' = NoContext
  /\ UNCHANGED <<base, libstate, cw, gt, hs, rr, ci, ing>>

NextContext ==
  \/ BuildContextCall
  \/ BuildContextRender
  \/ BuildContextReturn

SpecContext == InitLib /\ [][NextContext]_vars

(***************************************************************************)
(* create_podcast_index_if_needed (src/index/vector.py, lines 50-103) and  *)
(* the two names EMBEDDING_DIMENSION: the global of src/ingest/embed.py,   *)
(* assigned by get_embedding_model, and the name that line 14 of vector.py *)
(* binds, at import, to the value the global has then.                     *)
(***************************************************************************)

\* src/ingest/embed.py, lines 20-40: get_embedding_model() called outside
\* index creation (embed_text, line 53; scripts/ingest.py, line 91).
EmbeddingModelLoad ==
  /\ ci.pc = "idle"
  /\ ing.pc = "idle"
  /\ \E ok \in BOOLEAN, d \in EmbeddingDimensions :
       \E r \in {get_embedding_model(_embedding_model, nConstructed, ok)} :
         /\ _embedding_model' = r.em
         /\ nConstructed' = r.nc
         /\ EMBEDDING_DIMENSION' =
              IF r.em # _embedding_model THEN d ELSE EMBEDDING_DIMENSION
  /\ UNCHANGED <<config, loadable, _loaded_models, _rerank_model, api, pc, args,
                 locals, result, raised, calls, loads, askvars, threads, frames,
                 vector_EMBEDDING_DIMENSION, _rerank_model_name, podcast_index>>

\* src/index/vector.py, line 14: "from ingest.embed import
\* EMBEDDING_DIMENSION" binds the module's own name to the current value.
ImportVector ==
  /\ ~ci.imported
  /\ ci' = [ci EXCEPT !.imported = TRUE]
  /\ vector_EMBEDDING_DIMENSION' = EMBEDDING_DIMENSION
  /\ UNCHANGED <<base, cw, gt, hs, rr, bc, ing, EMBEDDING_DIMENSION,
                 _rerank_model_name, podcast_index>>

\* Line 50: the function is called.
CreateIndexCall ==
  /\ ci.pc = "idle"
  /\ ing.pc = "idle"
  /\ ci.imported
  /\ ci' = [NoCreate EXCEPT !.pc = "exists", !.imported = TRUE,
                            !.loaded_before = _embedding_model # 0]
  /\ UNCHANGED <<base, libstate, cw, gt, hs, rr, bc, ing>>

\* Lines 57-59: an existing index ends the call.
CreateIndexExists ==
  /\ ci.pc = "exists"
  /\ ci' = [ci EXCEPT !.existed = podcast_index.exists,
                      !.pc = IF podcast_index.exists THEN "done" ELSE "dimension"]
  /\ UNCHANGED <<base, libstate, cw, gt, hs, rr, bc, ing>>

\* Lines 62-63: the model is loaded when vector.py's name is None.
CreateIndexLoad ==
  /\ ci.pc = "dimension"
  /\ IF vector_EMBEDDING_DIMENSION # 0
       THEN /\ ci' = [ci EXCEPT !.pc = "create"]
            /\ UNCHANGED <<_embedding_model, nConstructed, EMBEDDING_DIMENSION>>
       ELSE \E ok \in BOOLEAN, d \in EmbeddingDimensions :
              \E r \in {get_embedding_model(_embedding_model, nConstructed, ok)} :
                /\ _embedding_model' = r.em
                /\ nConstructed' = r.nc
                /\ EMBEDDING_DIMENSION' =
                     IF r.em # _embedding_model THEN d ELSE EMBEDDING_DIMENSION
                /\ ci' = IF r.exc # "none"
                           THEN [ci EXCEPT !.pc = "done", !.raised = r.exc]
                           ELSE [ci EXCEPT !.pc = "create"]
  /\ UNCHANGED <<config, loadable, _loaded_models, _rerank_model, api, pc, args,
                 locals, result, raised, calls, loads, askvars, threads,
                 cw, gt, hs, rr, bc, ing,
                 vector_EMBEDDING_DIMENSION, _rerank_model_name, podcast_index>>

\* Lines 64-103: RuntimeError when vector.py's name is still None, else
\* the index is created with that dimension.
CreateIndexCreate ==
  /\ ci.pc = "create"
  /\ IF vector_EMBEDDING_DIMENSION = 0
       THEN /\ ci' = [ci EXCEPT !.pc = "done", !.raised = "RuntimeError"]
            /\ UNCHANGED podcast_index
       ELSE /\ ci' = [ci EXCEPT !.pc = "done", !.created = TRUE]
            /\ podcast_index' =
                 [podcast_index EXCEPT !.exists = TRUE,
                                       !.dimension = vector_EMBEDDING_DIMENSION]
  /\ UNCHANGED <<base, cw, gt, hs, rr, bc, ing, EMBEDDING_DIMENSION,
                 vector_EMBEDDING_DIMENSION, _rerank_model_name>>

\* src/scripts/ingest.py, lines 98-105: the index is deleted when
\* FORCE_RECREATE_COLLECTION is set.
DeleteIndex ==
  /\ ci.pc = "idle"
  /\ ing.pc = "idle"
  /\ podcast_index.exists
  /\ podcast_index' = NoIndex
  /\ ing' = NoIngest
  /\ UNCHANGED <<base, cw, gt, hs, rr, bc, ci, EMBEDDING_DIMENSION,
                 vector_EMBEDDING_DIMENSION, _rerank_model_name>>

\* src/index/vector.py, line 102, run by another process on the same
\* store: the index is there, with that process's vector dimension.
IndexMadeElsewhere ==
  /\ ci.pc = "idle"
  /\ ing.pc = "idle"
  /\ ~podcast_index.exists
  /\ \E d \in EmbeddingDimensions :
       podcast_index' = [NoIndex EXCEPT !.exists = TRUE, !.dimension = d]
  /\ UNCHANGED <<base, frames, EMBEDDING_DIMENSION, vector_EMBEDDING_DIMENSION,
                 _rerank_model_name>>

(* -------------- src/rag.py: ingest_podcast_episode -------------------- *)

\* The most chunks of one transcript.
MaxIngestChunks == 2

\* A transcript, by its wording and by the number of chunks that
\* chunk_by_semantic_windows makes of it; the text of its k-th chunk.
Transcripts == [wording : {"v1", "v2"}, n : 0..MaxIngestChunks]
TranscriptChunks(transcript) ==
  [k \in 1..transcript.n |-> <<transcript.wording, k>>]

\* Line 56: f"{episode.episode_id}_chunk_{chunk_data['paragraph_index']}".
ChunkId(episode_id, paragraph_index) ==
  episode_id \o <<"_chunk_", paragraph_index>>

\* Lines 58-72: the document of one chunk (the fields copied from the
\* episode are left out).
ChunkDoc(episode_id, chunk_data) ==
  [chunk_id |-> ChunkId(episode_id, chunk_data.paragraph_index),
   episode_id |-> episode_id,
   chunk_text |-> chunk_data.text,
   chunk_index |-> chunk_data.paragraph_index]

\* Line 73, client.index(id=chunk_id): the document replaces the one
\* stored under the same id, if any.
IndexDoc(docs, doc) == {d \in docs : d.chunk_id # doc.chunk_id} \cup {doc}

\* Lines 51-54: the call; the transcript is chunked.
IngestCall ==
  /\ ing.pc = "idle"
  /\ ci.pc = "idle"
  /\ podcast_index.exists
  /\ \E episode_id \in EpisodeIds, transcript \in Transcripts :
       ing' = [NoIngest EXCEPT !.pc = "loop", !.episode_id = episode_id,
                               !.chunks = ChunkRecords(TranscriptChunks(transcript)),
                               !.i = 1, !.latest = ing.latest]
  /\ UNCHANGED <<base, libstate, cw, gt, hs, rr, bc, ci>>

\* Lines 55-73: one turn of the loop: the chunk is embedded (the model is
\* loaded at the first use) and written; the store refuses a vector that
\* has not the dimension of the index.
IngestChunk ==
  /\ ing.pc = "loop"
  /\ ing.i <= Len(ing.chunks)
  /\ \E ok \in BOOLEAN, d \in EmbeddingDimensions :
       \E r \in {get_embedding_model(_embedding_model, nConstructed, ok)} :
         \E dim \in {IF r.em # _embedding_model THEN d ELSE EMBEDDING_DIMENSION} :
           /\ _embedding_model' = r.em
           /\ nConstructed' = r.nc
           /\ EMBEDDING_DIMENSION' = dim
           /\ IF r.exc # "none"
                THEN /\ ing' = [ing EXCEPT !.pc = "done", !.raised = r.exc]
                     /\ UNCHANGED podcast_index
                ELSE IF dim # podcast_index.dimension
                THEN /\ ing' = [ing EXCEPT !.pc = "done", !.raised = "RequestError"]
                     /\ UNCHANGED podcast_index
                ELSE /\ ing' = [ing EXCEPT !.i = @ + 1]
                     /\ podcast_index' =
                          [podcast_index EXCEPT
                             !.docs = IndexDoc(@, ChunkDoc(ing.episode_id,
                                                           ing.chunks[ing.i]))]
  /\ UNCHANGED <<config, loadable, _loaded_models, _rerank_model, api, pc, args,
                 locals, result, raised, calls, loads, askvars, threads,
                 cw, gt, hs, rr, bc, ci,
                 vector_EMBEDDING_DIMENSION, _rerank_model_name>>

\* Lines 75-77: the loop has ended; the transcript is the one ingested last.
IngestFinish ==
  /\ ing.pc = "loop"
  /\ ing.i > Len(ing.chunks)
  /\ ing' = [ing EXCEPT !.pc = "done", !.latest[ing.episode_id] = ing.chunks]
  /\ UNCHANGED <<base, libstate, cw, gt, hs, rr, bc, ci>>

\* The call has ended.
IngestReturn ==
  /\ ing.pc = "done"
  /\ ing' = [NoIngest EXCEPT !.latest = ing.latest]
  /\ UNCHANGED <<base, libstate, cw, gt, hs, rr, bc, ci>>

\* The call has ended.
CreateIndexReturn ==
  /\ ci.pc = "done"
  /\ ci' = [NoCreate EXCEPT !.imported = TRUE]
  /\ UNCHANGED <<base, libstate, cw, gt, hs, rr, bc, ing>>

NextIndex ==
  \/ EmbeddingModelLoad
  \/ ImportVector
  \/ CreateIndexCall
  \/ CreateIndexExists
  \/ CreateIndexLoad
  \/ CreateIndexCreate
  \/ CreateIndexReturn
  \/ DeleteIndex
  \/ IndexMadeElsewhere
  \/ IngestCall
  \/ IngestChunk
  \/ IngestFinish
  \/ IngestReturn

SpecIndex == InitLib /\ [][NextIndex]_vars

(* ------------------------- the claims' terms -------------------------- *)

\* A backend whose _load_model returns a handle now: memoized, or loadable.
CanLoad(t) == _loaded_models[t] # 0 \/ t \in loadable

\* The configured primary (fallback) backend can be obtained.
PrimaryLoadable ==
  Recognised(PRIMARY_MODEL) /\ CanLoad(_get_model_type_from_string(PRIMARY_MODEL))
FallbackLoadable ==
  Recognised(FALLBACK_MODEL) /\ CanLoad(_get_model_type_from_string(FALLBACK_MODEL))

\* The long-context backend is asked for by the call and can be obtained.
BiggerWanted == use_bigger_for_long_context /\ prompt_len > LONG_PROMPT_CHARS
BiggerLoadable == BiggerWanted /\ USE_BIGGER_MODEL /\ CanLoad(LLAMA3_8B)

\* The preferred backend is given and can be obtained.
PreferredLoadable ==
  /\ model_preference # ""
  /\ Recognised(model_preference)
  /\ CanLoad(_get_model_type_from_string(model_preference))

\* The first candidate of the order long-context, preferred, primary,
\* fallback that can be obtained ("none" when there is none).
FirstLoadable ==
  IF BiggerLoadable THEN LLAMA3_8B
  ELSE IF PreferredLoadable THEN _get_model_type_from_string(model_preference)
  ELSE IF PrimaryLoadable THEN _get_model_type_from_string(PRIMARY_MODEL)
  ELSE IF FallbackLoadable THEN _get_model_type_from_string(FALLBACK_MODEL)
  ELSE "none"

InGenerate == api = "generate"
Returned == pc = "done"

(* ------------------------------- C1 ----------------------------------- *)

\* C1: generate_answer never lets an exception reach its caller: whatever
\* the prompt, the preference, the configured identifiers and the backends
\* that fail to load or to complete, the call ends with a text.
C1_NeverRaises ==
  (Returned /\ genInvocations > 0) => (raised = "none" /\ result # NoResult)

(* ------------------------------- C2 ----------------------------------- *)

\* C2: when the primary backend fails to load and the fallback backend
\* loads (and neither the long-context nor a preferred backend was asked
\* for), the completion runs on the fallback backend and the model name the
\* call works with is the fallback's.
C2_FallbackIdentity ==
  ( /\ calls # <<>>
    /\ ~BiggerWanted /\ model_preference = ""
    /\ Recognised(PRIMARY_MODEL) /\ ~PrimaryLoadable /\ FallbackLoadable )
  => LET fb == _get_model_type_from_string(FALLBACK_MODEL) IN
       /\ calls[1].model.type = fb
       /\ model_name = MODEL_CONFIGS[fb].description

(* ------------------------------- C3 ----------------------------------- *)

\* C3: when neither the primary nor the fallback backend can be loaded and
\* no other backend was obtained, generate_answer makes no completion call
\* and returns the text that says no model is available.
C3_NoBackendText ==
  ( /\ Returned /\ genInvocations > 0
    /\ ~PrimaryLoadable /\ ~FallbackLoadable /\ model = NoModel )
  => (calls = <<>> /\ raised = "none" /\ result.kind = "NoModels")

(* ------------------------------- C4 ----------------------------------- *)

\* C4: the first completion call goes to the first backend that can be
\* obtained in the order long-context, preferred, primary, fallback, on
\* the handle the memo holds; and when it is made, every load tried before
\* the one that gave the model had failed.
C4_FirstLoadableServes ==
  calls # <<>> =>
    /\ calls[1].model.type = FirstLoadable
    /\ calls[1].model.gen = _loaded_models[calls[1].model.type]
    /\ pc \in {"first", "retry"} =>
         /\ loads # <<>>
         /\ loads[Len(loads)].kind # "failed"
         /\ loads[Len(loads)].type = calls[1].model.type
         /\ \A i \in 1..(Len(loads) - 1) : loads[i].kind = "failed"

\* C4's case: the long-context and an unloadable preferred backend were
\* tried, the primary failed and the fallback serves the first call.
C4_Witness ==
  /\ Len(calls) = 1
  /\ Len(loads) = 4
  /\ BiggerWanted /\ model_preference # ""
  /\ calls[1].model.type = _get_model_type_from_string(FALLBACK_MODEL)

(* ------------------------------- C5 ----------------------------------- *)

\* The first completion call raised an exception (of any class).
FirstFailed == e # NoErr

\* C5: when the first completion call has raised an error whose message
\* holds an overflow indicator, whatever its class, the call retries once on
\* the same backend with min(256, budget) tokens and the same temperature;
\* when the message holds none, no second call is made.
C5_RetryOnOverflow ==
  (Returned /\ FirstFailed) =>
    IF HasIndicator(e.msg)
      THEN /\ Len(calls) >= 2
           /\ calls[2] = Completion(calls[1].model,
                                    Min(REDUCED_MAX_TOKENS, calls[1].max_tokens),
                                    calls[1].temperature)
      ELSE Len(calls) = 1

(* ------------------------------- C6 ----------------------------------- *)

\* The reduced-budget retry raised as well.
RetryFailed == e2 # <<>>

\* C6: after the retry has failed too, and with a configured fallback
\* backend that can be obtained, one more completion call is made, on the
\* fallback backend with the fallback's own default budget and temperature,
\* exactly when the backend that served the two failed calls is not the
\* configured fallback backend.
C6_FallbackAfterRetry ==
  (Returned /\ RetryFailed /\ FallbackLoadable) =>
    LET fb == _get_model_type_from_string(FALLBACK_MODEL) IN
      IF calls[1].model.type # fb
        THEN /\ Len(calls) = 3
             /\ calls[3] = Completion([type |-> fb, gen |-> _loaded_models[fb]],
                                      MODEL_CONFIGS[fb].default_max_tokens,
                                      MODEL_CONFIGS[fb].default_temperature)
        ELSE Len(calls) = 2

(* ------------------------------- C7 ----------------------------------- *)

\* C7: a returned text that the retry produced (the second of two
\* completion calls) ends with the reduced-budget note, and one that the
\* overflow-triggered fallback call produced (the third call) ends with the
\* fallback note.
C7_DegradedPathsNoted ==
  (Returned /\ result.kind = "Text" /\ Len(calls) >= 2) =>
    /\ FirstFailed /\ HasIndicator(e.msg)
    /\ Len(calls) = 2 => (~RetryFailed /\ result.note = "reduced")
    /\ Len(calls) = 3 => (RetryFailed /\ result.note = "fallback")

\* C7's case: the first call and the retry failed and the fallback
\* model's text is returned.
C7_Witness ==
  /\ Returned /\ result.kind = "Text" /\ Len(calls) = 3
  /\ result.note = "fallback"

(* ------------------------------- C8 ----------------------------------- *)

\* C8: over any sequence of calls made one after the other, each backend
\* is constructed at most once and the memo holds that one handle; every
\* completion call runs on the memoized handle; a load that found the memo
\* set constructed nothing, and a load that failed in the running call
\* left the memo of its backend empty.
C8_LoadedOnceAndReused ==
  /\ \A t \in ModelType :
       nConstructed[t] <= 1 /\ _loaded_models[t] = nConstructed[t]
  /\ \A i \in 1..Len(calls) :
       calls[i].model.gen = 1
  /\ \A i \in 1..Len(loads) :
       /\ loads[i].kind = "failed" => _loaded_models[loads[i].type] = 0
       /\ loads[i].kind = "hit" => nConstructed[loads[i].type] = 1

\* C8's case: a call whose first load found the handle an earlier call
\* had memoized, and ran its completion on it.
C8_Witness ==
  /\ loads # <<>> /\ loads[1].kind = "hit"
  /\ calls # <<>> /\ calls[1].model = [type |-> loads[1].type, gen |-> 1]

(* ------------------------------- C9 ----------------------------------- *)

\* C9: with requests running concurrently, each memoized model (each
\* generation backend, the embedding model, the reranking model) is
\* constructed at most once.
C9_ConstructedOnce == \A k \in MemoKeys : nConstructed[k] <= 1

(* ------------------------------- C10 ---------------------------------- *)

InAsk == api = "ask"

\* C10: in ask_podcast_question, while the search has returned no hits no
\* generation backend has been loaded or called, and the call then returns
\* exactly the fixed answer; when hits were returned, generate_answer is
\* invoked once, and not before the context is built.
C10_NoHitsNoGeneration ==
  InAsk =>
    /\ hits = <<>> => (genInvocations = 0 /\ loads = <<>> /\ calls = <<>>)
    /\ (Returned /\ raised = "none" /\ hits = <<>>) => result = NoHitsResult
    /\ genInvocations > 0 => contextBuilt
    /\ (Returned /\ hits # <<>>) => genInvocations = 1

\* C10's case: the search returned no hits and the call has returned.
C10_Witness ==
  /\ InAsk /\ Returned /\ raised = "none" /\ hits = <<>>
  /\ result.kind = NO_HITS_ANSWER

(* ------------------------------- C11 ---------------------------------- *)

\* C11: an ask_podcast_question call that ends before generation without
\* the no-hits answer ended by a failure of the embedding or of the search,
\* which reaches the caller with no backend loaded or called; a call that
\* entered generate_answer ends with a text, never with a failure.
C11_PropagationPolicy ==
  (InAsk /\ Returned) =>
    /\ (genInvocations = 0 /\ result # NoHitsResult) =>
         (raised # "none" /\ calls = <<>> /\ loads = <<>>)
    /\ genInvocations > 0 => (raised = "none" /\ result # NoResult)

(* ------------------------------- C12 ---------------------------------- *)

Chunked == cw.pc = "done"

\* The chunk is one block, and the block alone exceeds max_tokens.
SingleOversizedBlock(chunk) ==
  \E b \in DOMAIN cw.blocks :
    chunk = cw.blocks[b] /\ estimate_tokens(cw.blocks[b]) > cw.max_tokens

\* C12: every chunk returned by chunk_by_semantic_windows has an estimated
\* token count of at most max_tokens, unless it is a single block that
\* alone exceeds max_tokens.
C12_ChunkWithinBudget ==
  Chunked =>
    \A k \in DOMAIN cw.chunks :
      \/ estimate_tokens(cw.chunks[k]) <= cw.max_tokens
      \/ SingleOversizedBlock(cw.chunks[k])

(* ------------------------------- C13 ---------------------------------- *)

\* The overlap prefix of chunk k: the last int(overlap/1.3) words of the
\* chunk before it (all of them when it has fewer), none for the first.
PrefixLen(k) ==
  IF k = 1 THEN 0 ELSE Min(OverlapWords(cw.overlap), Len(cw.chunks[k - 1]))

WithoutPrefix(k) ==
  SubSeq(cw.chunks[k], PrefixLen(k) + 1, Len(cw.chunks[k]))

\* C13: the chunks without their overlap prefixes, concatenated, are the
\* blocks in their order: no block dropped, none duplicated.
C13_BlocksReproduced ==
  Chunked =>
    Join([k \in 1..Len(cw.chunks) |-> WithoutPrefix(k)]) = Join(cw.blocks)

(* ------------------------------- C14 ---------------------------------- *)

\* The last n words of a text, all of it when it has fewer, none for n = 0.
LastWords(txt, n) ==
  IF n >= Len(txt) THEN txt ELSE SubSeq(txt, Len(txt) - n + 1, Len(txt))

\* C14: at each emission before the end of the input, the next buffer is
\* seeded with exactly the last int(overlap/1.3) words of the emitted chunk.
C14_OverlapSeed ==
  \A k \in DOMAIN cw.seeds :
    cw.seeds[k] = LastWords(cw.chunks[k], OverlapWords(cw.overlap))

(* ------------------------------- C15 ---------------------------------- *)

RECURSIVE SumTokens(_)
SumTokens(blocks) ==
  IF blocks = <<>> THEN 0
  ELSE estimate_tokens(Head(blocks)) + SumTokens(Tail(blocks))

\* C15: the records returned carry the positions 0, 1, ..., n-1 in the order
\* of emission and a null timestamp; no block gives no chunk, and blocks
\* whose estimates together stay within max_tokens give exactly one chunk.
C15_PositionsSequential ==
  Chunked =>
    /\ Len(cw.result) = Len(cw.chunks)
    /\ \A k \in DOMAIN cw.result :
         /\ cw.result[k].paragraph_index = k - 1
         /\ cw.result[k].timestamp = "None"
         /\ cw.result[k].text = cw.chunks[k]
    /\ cw.blocks = <<>> => cw.result = <<>>
    /\ (cw.blocks # <<>> /\ SumTokens(cw.blocks) <= cw.max_tokens) =>
         Len(cw.result) = 1

\* C15's case: a call that returned three chunks or more.
C15_Witness == Chunked /\ Len(cw.result) >= 3

(* ------------------------------- C16 ---------------------------------- *)

Extracted == gt.pc = "done"

\* A name: two or more capitalized words.
IsName(ws) == Len(ws) >= 2 /\ \A j \in DOMAIN ws : ws[j] \in CapWords

\* The four heuristics as stated: the keyword, then a name.
ExpectedGuest(title) ==
  IF SearchAfter(title, {"with"}, CapWords) # <<>>
    THEN SearchAfter(title, {"with"}, CapWords)
  ELSE IF SearchAfter(title, {"ft", "featuring"}, CapWords) # <<>>
    THEN SearchAfter(title, {"ft", "featuring"}, CapWords)
  ELSE IF MatchOn(title) # <<>> THEN MatchOn(title)
  ELSE MatchTrailing(title)

\* C16: extract_guest_from_title returns the title unchanged and the name
\* captured by the first heuristic that matches; a guest returned is two or
\* more capitalized words, and the guest is absent when none matches.
C16_GuestIsCapitalizedName ==
  Extracted =>
    /\ gt.result.title = gt.title
    /\ gt.result.guest # <<>> => IsName(gt.result.guest)
    /\ gt.result.guest = ExpectedGuest(gt.title)

(* ------------------------------- C17 ---------------------------------- *)

Searched == hs.pc = "done" /\ hs.raised = "none"

TermClauses == {c \in Range(hs.body.filter) : c.kind = "term"}
TermsClauses == {c \in Range(hs.body.filter) : c.kind = "terms"}

\* The hits agree with the collection asked for, and with the topics.
HitsInCollection ==
  \A hit \in Range(hs.result) : hit._source.podcast_name = hs.podcast_name.v
HitsOnTopics ==
  \A hit \in Range(hs.result) : hit._source.topics \cap Range(hs.topics.v) # {}

\* C17, as stated: a filter argument that is given (not None) has its
\* clause in the request and no hit disagrees with it; an argument that is
\* not given has no clause.
C17_FiltersWhenGiven ==
  hs.pc # "idle" =>
    /\ hs.podcast_name.some <=> TermClauses # {}
    /\ hs.topics.some <=> TermsClauses # {}
    /\ (Searched /\ hs.podcast_name.some) => HitsInCollection
    /\ (Searched /\ hs.topics.some) => HitsOnTopics

GivenName == hs.podcast_name.some /\ hs.podcast_name.v # ""
GivenTopics == hs.topics.some /\ hs.topics.v # <<>>

\* C17, amended: a collection filter that is a non-empty string has its
\* exact-match clause in the request, a topic filter that is a non-empty
\* list has its set-membership clause, and no hit returned disagrees with
\* either; None, the empty string and the empty list send no clause.
C17_FiltersWhenNonEmpty ==
  hs.pc # "idle" =>
    /\ GivenName =>
         TermClauses = {[kind |-> "term", field |-> "podcast_name",
                         value |-> hs.podcast_name.v]}
    /\ GivenTopics =>
         TermsClauses = {[kind |-> "terms", field |-> "topics",
                          value |-> hs.topics.v]}
    /\ ~GivenName => TermClauses = {}
    /\ ~GivenTopics => TermsClauses = {}
    /\ (Searched /\ GivenName) => HitsInCollection
    /\ (Searched /\ GivenTopics) => HitsOnTopics

\* C17's case: both filters given, on a store that holds a chunk of another
\* collection and a chunk of other topics, and a hit returned.
C17_Witness ==
  /\ Searched /\ GivenName /\ GivenTopics
  /\ hs.result # <<>>
  /\ \E doc \in Range(hs.store) : doc.podcast_name # hs.podcast_name.v
  /\ \E doc \in Range(hs.store) : doc.topics \cap Range(hs.topics.v) = {}

(* ------------------------------- C18 ---------------------------------- *)

\* The chunks of the store that pass the filter clauses of the request.
FilteredStore ==
  {i \in DOMAIN hs.store :
     \A c \in Range(hs.body.filter) : SatisfiesFilter(hs.store[i], c)}

\* C18: an empty query text sends match_all, so the hits are as many as
\* size allows of the filtered store; a non-empty text sends a match on
\* chunk_text; the hits returned are the store's, in its order, with their
\* identifiers, scores and sources unchanged.
C18_MatchAllAndHitsUnchanged ==
  hs.pc # "idle" =>
    /\ hs.user_query = "" => hs.body.must.kind = "match_all"
    /\ hs.user_query # "" =>
         hs.body.must = [kind |-> "match", field |-> "chunk_text",
                         query |-> hs.user_query]
    /\ (Searched /\ hs.user_query = "") =>
         Len(hs.result) = Min(hs.size, Cardinality(FilteredStore))
    /\ Searched =>
         /\ Len(hs.result) = Len(hs.response)
         /\ \A k \in DOMAIN hs.result :
              /\ hs.result[k]._id = hs.response[k]._id
              /\ hs.result[k]._score = hs.response[k]._score
              /\ hs.result[k]._source = hs.response[k]._source

\* C18's case: an empty query text, no chunk matching lexically, and as
\* many hits as size allows.
C18_Witness ==
  /\ Searched /\ hs.user_query = ""
  /\ \A doc \in Range(hs.store) : ~doc.lex
  /\ Len(hs.result) = 2

(* ------------------------------- C19 ---------------------------------- *)

Reranked == rr.pc = "done" /\ rr.raised = "none"

\* C19: with top_k None the hits returned are the hits given, each
\* identifier once; a call with no hits returns the empty list at once,
\* the reranking model neither fetched nor invoked.
C19_Permutation ==
  /\ (Reranked /\ ~rr.top_k.some) =>
       /\ Len(rr.result) = Len(rr.hits)
       /\ \A i \in DOMAIN rr.hits :
            Cardinality({k \in DOMAIN rr.result : rr.result[k]._id = rr.hits[i]._id}) = 1
  /\ (rr.pc # "idle" /\ rr.hits = <<>>) =>
       /\ Reranked
       /\ rr.result = <<>>
       /\ rr.model = 0
       /\ rr.scores = <<>>

\* C19's case: three hits, top_k None, returned in another order.
C19_Witness ==
  /\ Reranked /\ ~rr.top_k.some /\ Len(rr.hits) = 3
  /\ \E k \in DOMAIN rr.result : rr.result[k]._id # rr.hits[k]._id

(* ------------------------------- C20 ---------------------------------- *)

\* The number of hits given that come before hit i in the order claimed:
\* those of greater score, and those of equal score given earlier.
Preceding(i) ==
  Cardinality({j \in DOMAIN rr.hits :
                 \/ rr.scores[j] > rr.scores[i]
                 \/ rr.scores[j] = rr.scores[i] /\ j < i})

\* C20: the k-th hit returned is the hit that k - 1 hits precede in the
\* order by descending score, ties in input order, and carries its score;
\* with top_k given the result is the first min(top_k, n) of that order.
C20_SortedStableTopK ==
  (Reranked /\ rr.hits # <<>>) =>
    /\ Len(rr.result) =
         IF rr.top_k.some THEN Min(rr.top_k.v, Len(rr.hits)) ELSE Len(rr.hits)
    /\ \A k \in DOMAIN rr.result :
         \E i \in DOMAIN rr.hits :
           /\ rr.result[k]._id = rr.hits[i]._id
           /\ rr.result[k]._rerank_score = rr.scores[i]
           /\ Preceding(i) = k - 1

\* C20's case: two hits of equal score, a later hit of greater score than
\* an earlier one, and a top_k that cuts the result.
C20_Witness ==
  /\ Reranked /\ rr.top_k.some /\ rr.top_k.v = 2 /\ Len(rr.hits) = 3
  /\ rr.scores[1] = rr.scores[2]
  /\ rr.scores[3] > rr.scores[1]

(* ------------------------------- C21 ---------------------------------- *)

\* C21: every hit returned by rerank_results is one of the hits given,
\* with its identifier, its retrieval score and its source as given, and
\* with the pairwise score in the field _rerank_score beside them.
C21_ScoreInNewField ==
  Reranked =>
    \A k \in DOMAIN rr.result :
      /\ {"_id", "_score", "_source", "_rerank_score"} \subseteq DOMAIN rr.result[k]
      /\ \E i \in DOMAIN rr.hits :
           /\ rr.result[k]._id = rr.hits[i]._id
           /\ rr.result[k]._score = rr.hits[i]._score
           /\ rr.result[k]._source = rr.hits[i]._source
           /\ rr.result[k]._rerank_score = rr.scores[i]

\* C21's case: a hit returned whose pairwise score differs from its
\* retrieval score.
C21_Witness ==
  /\ Reranked
  /\ \E k \in DOMAIN rr.result : rr.result[k]._rerank_score # rr.result[k]._score

(* ------------------------------- C22 ---------------------------------- *)

\* A cut after n characters falls between words: at an end of the text, or
\* with a space on one side of it.
IsWordBoundary(txt, n) ==
  \/ n = 0
  \/ n = Len(txt)
  \/ txt[n] = " "
  \/ txt[n + 1] = " "

\* C22: under every budget, a chunk text longer than the budget is rendered
\* as a prefix of it cut at a word boundary followed by the truncation
\* marker, in at most budget + marker length characters; a chunk text within
\* the budget is rendered unchanged.
C22_TruncatedAtWordBoundary ==
  bc.pc = "done" =>
    IF Len(bc.chunk_text) > bc.CONTEXT_CHUNK_MAX_CHARS
      THEN /\ \E n \in 0..Len(bc.chunk_text) :
                /\ IsWordBoundary(bc.chunk_text, n)
                /\ bc.rendered = Prefix(bc.chunk_text, n) \o TRUNCATION_MARKER
           /\ Len(bc.rendered) <= bc.CONTEXT_CHUNK_MAX_CHARS + Len(TRUNCATION_MARKER)
      ELSE bc.rendered = bc.chunk_text

(* ------------------------------- C23 ---------------------------------- *)

\* C23: a create_podcast_index_if_needed call that found no index and has
\* the embedding model loaded ends with the index created, its vector
\* dimension the one discovered from the model; a call that found the index
\* creates nothing.
C23_IndexCreatedWithModelDimension ==
  ci.pc = "done" =>
    /\ (~ci.existed /\ _embedding_model # 0) =>
         /\ ci.created
         /\ podcast_index.exists
         /\ podcast_index.dimension = EMBEDDING_DIMENSION
    /\ ci.existed => ~ci.created

(* ------------------------------- C29 ---------------------------------- *)

\* The stored chunks that carry an episode id.
StoredChunks(episode_id) ==
  {d \in podcast_index.docs : d.episode_id = episode_id}

\* C29: between ingest_podcast_episode calls, no two stored chunks share an
\* identifier, and the chunks stored for each episode id are exactly the
\* chunks of the transcript ingested last for it.
C29_StoreHoldsLatestTranscript ==
  ing.pc = "idle" =>
    /\ \A d1, d2 \in podcast_index.docs : d1.chunk_id = d2.chunk_id => d1 = d2
    /\ \A id \in EpisodeIds :
         StoredChunks(id) = {ChunkDoc(id, ing.latest[id][k]) : k \in DOMAIN ing.latest[id]}

(* ------------------------------- C24 ---------------------------------- *)

\* The environment-level override when it is set, else the default.
OverrideOr(override, default) == IF override # 0 THEN override ELSE default

\* C24: the first completion call of generate_answer passes the token
\* budget and the temperature that are the defaults of the backend that
\* executes it, or the environment-level override when one is set.
C24_FirstCallUsesServingDefaults ==
  (InGenerate /\ calls # <<>>) =>
    LET serving == MODEL_CONFIGS[calls[1].model.type] IN
      /\ calls[1].max_tokens =
           OverrideOr(LLAMA_MAX_TOKENS, serving.default_max_tokens)
      /\ calls[1].temperature =
           OverrideOr(LLAMA_TEMPERATURE, serving.default_temperature)

(* ------------------------------- C27 ---------------------------------- *)

\* The completion calls made on a backend.
CallsOn(t) == {k \in DOMAIN calls : calls[k].model.type = t}

\* C27: generate_answer makes at most three completion calls: at most two
\* on the selected backend, the first attempt and one retry, and at most
\* one, the last, on another backend, the fallback.
C27_AtMostThreeCalls ==
  (InGenerate /\ calls # <<>>) =>
    /\ Len(calls) <= 3
    /\ Cardinality(CallsOn(calls[1].model.type)) <= 2
    /\ Len(calls) = 3 => calls[3].model.type # calls[1].model.type

(* ------------------------------- C28 ---------------------------------- *)

\* C28: no chunk returned by chunk_by_semantic_windows for a transcript
\* with at least one block has an empty text.
C28_NoEmptyChunk ==
  (Chunked /\ cw.blocks # <<>>) =>
    \A k \in DOMAIN cw.result : cw.result[k].text # <<>>

(* ------------------------------- C25 ---------------------------------- *)

\* The chunks that pass the filters and satisfy a scoring signal: a lexical
\* match of the query text, or a place among the nearest neighbours.
EitherSignal ==
  {i \in FilteredStore :
     SatisfiesMust(hs.store[i], hs.body.must) \/ i \in hs.nearest}

\* C25: a chunk that satisfies either scoring signal is returned when size
\* leaves room for every such chunk, be it a nearest neighbour of the query
\* embedding that does not match lexically, or a lexical match that is not
\* a nearest neighbour.
C25_EitherSignalIsAHit ==
  (Searched /\ Cardinality(EitherSignal) <= hs.size) =>
    \A i \in EitherSignal : \E hit \in Range(hs.result) : hit._id = i

(* ------------------------------- C26 ---------------------------------- *)

\* C26: the model that get_rerank_model(model_name) returns to
\* rerank_results was loaded from model_name, or from the default reranking
\* model when model_name is omitted.
C26_ModelOfRequestedName ==
  (rr.pc # "idle" /\ rr.model # 0) =>
    rr.loaded_from = RequestedRerankModel(rr.model_name)

=============================================================================
